---------------------------- MODULE Spec2Model ----------------------------
(***************************************************************************)
(* A model of the three host-side scripts of the homelab repository:       *)
(*   scripts/add_adlists.py          the adlist provisioner                *)
(*   scripts/auto_patch_backup.py    the backup patcher                    *)
(*   scripts/inspect_backup_image.py the backup image inspector            *)
(* The scripts are independent, so each has a specification of its own     *)
(* (SpecProv, SpecPatch, SpecInsp) and the pure path functions of the      *)
(* patcher have a fourth (SpecPath).  A specification holds the variables  *)
(* of the other scripts at their idle values.                              *)
(*                                                                         *)
(* Strings that the code inspects character by character (host paths,      *)
(* archive names) are sequences of one-character strings.                  *)
(***************************************************************************)
EXTENDS Integers, Sequences, FiniteSets, TLC

VARIABLES
    \* ---- pure path functions (auto_patch_backup.py) ----
    call,        \* the function applied and its arguments
    ret,         \* its result, once applied
    \* ---- adlist provisioner (add_adlists.py) ----
    provPc,      \* where main() stands: "ready" (no run in progress),
                 \* "resolved" (line 152), "applied" (line 175)
    provArgs,    \* the parsed arguments of the run in progress or last ended
    has_sqlite3, \* whether the container has sqlite3 (this run)
    db,          \* the container's gravity.db
    db0,         \* gravity.db as it was before the first run
    now,         \* strftime('%s','now')
    provCalls,   \* the external commands of this run, in order
    stmts,       \* the SQL statements this run executed, in order
    provExit,    \* the exit status of the last run that ended, -1 before
    provRuns,    \* the number of runs started
    applies,     \* the number of non-dry runs that completed
    afterFirst,  \* what the first completed non-dry run left in gravity.db
    \* ---- backup patcher (auto_patch_backup.py) ----
    patchPc,     \* where main() stands: "start", "ensure" (line 250),
                 \* "loop" (line 127), "report" (line 252), "exited"
    patchArgs,   \* containers, extra_prefix, dry_run, rebuild_image
    hostPaths,   \* the host paths that exist
    inspect,     \* what docker inspect answers for each container
    bindDir,     \* whether the snapshot has a bind-mounts/ directory
    archives,    \* the *.tar.gz names in bind-mounts/
    snapshot0,   \* bind-mounts/ as it was before the run
    allowed,     \* main: allowed
    existing,    \* main: existing (the BEFORE report)
    missing,     \* main: missing
    ensureExisting,        \* ensure_bind_archives: existing
    idx,         \* ensure_bind_archives: the item of bind_mounts the loop is at
    created,     \* ensure_bind_archives: created
    failures,    \* the archive steps that failed so far
    patchCalls,  \* the external commands of the run, in order
    afterReport, \* the AFTER report: each name listed and whether flagged new
    patchExit    \* the exit status, -1 while running

\* inspect_backup_image.py
VARIABLES
    inspPc,      \* where the run of the inspector is
    inspArgs,    \* --image, --auto
    images,      \* the local homelab-backup:* images, sorted
    bundleEnv,   \* what the image holds: /bundle, manifests/, containers.json
    image,       \* main: image
    tmpDir,      \* whether the directory made by mkdtemp is there
    made,        \* whether the throwaway container is there
    cid,         \* main: cid
    raised,      \* the exception in flight, and the command it came from
    inspOut,     \* what was written to stdout
    inspErr,     \* what was written to stderr
    inspExit     \* the exit status, -1 while running

pathVars == <<call, ret>>

provVars == <<provPc, provArgs, has_sqlite3, db, db0, now, provCalls, stmts,
              provExit, provRuns, applies, afterFirst>>

patchVars == <<patchPc, patchArgs, hostPaths, inspect, bindDir, archives,
               snapshot0, allowed, existing, missing, ensureExisting, idx, created,
               failures,
               patchCalls, afterReport, patchExit>>

inspVars == <<inspPc, inspArgs, images, bundleEnv, image, tmpDir, made,
              cid, raised, inspOut, inspErr, inspExit>>

vars == <<pathVars, provVars, patchVars, inspVars>>

---------------------------------------------------------------------------
\* Strings

\* All strings over alphabet A of length at most n.
StrOver(A, n) == UNION {[1..k -> A] : k \in 0..n}

\* str.startswith
StartsWith(s, p) == Len(p) <= Len(s) /\ SubSeq(s, 1, Len(p)) = p

\* str.lstrip("/")
RECURSIVE LStripSlash(_)
LStripSlash(s) ==
    IF s # <<>> /\ Head(s) = "/" THEN LStripSlash(Tail(s)) ELSE s

\* The number of leading "/" of s.
RECURSIVE LeadingSlashes(_)
LeadingSlashes(s) ==
    IF s # <<>> /\ Head(s) = "/" THEN 1 + LeadingSlashes(Tail(s)) ELSE 0

\* str.split("/"): the parts between separators, empty parts included.
RECURSIVE SplitSlash(_)
SplitSlash(s) ==
    IF s = <<>> THEN << <<>> >>
    ELSE LET rest == SplitSlash(Tail(s)) IN
         IF Head(s) = "/" THEN << <<>> >> \o rest
         ELSE << <<Head(s)>> \o Head(rest) >> \o Tail(rest)

\* "/".join(parts)
RECURSIVE JoinSlash(_)
JoinSlash(parts) ==
    IF parts = <<>> THEN <<>>
    ELSE IF Len(parts) = 1 THEN Head(parts)
    ELSE Head(parts) \o <<"/">> \o JoinSlash(Tail(parts))

\* The segments pathlib keeps: empty parts and "." are dropped, ".." is kept.
RECURSIVE KeptSegments(_)
KeptSegments(parts) ==
    IF parts = <<>> THEN <<>>
    ELSE IF Head(parts) \in {<<>>, <<".">>} THEN KeptSegments(Tail(parts))
    ELSE <<Head(parts)>> \o KeptSegments(Tail(parts))

\* str(Path(s)) on POSIX: repeated and trailing separators and "." segments
\* go, exactly two leading separators stay two, three or more become one,
\* and the empty path is ".".
PathStr(s) ==
    LET n    == LeadingSlashes(s)
        root == IF n = 0 THEN <<>> ELSE IF n = 2 THEN <<"/", "/">> ELSE <<"/">>
        segs == KeptSegments(SplitSlash(s))
    IN  IF root = <<>> /\ segs = <<>> THEN <<".">>
        ELSE root \o JoinSlash(segs)

\* os.sep
Sep == <<"/">>

\* str.replace("/", "__")
RECURSIVE ReplaceSlash(_)
ReplaceSlash(s) ==
    IF s = <<>> THEN <<>>
    ELSE (IF Head(s) = "/" THEN <<"_", "_">> ELSE <<Head(s)>>)
         \o ReplaceSlash(Tail(s))

TarGz == <<".", "t", "a", "r", ".", "g", "z">>

\* Host paths and archive names the scripts and their documentation name.
\* Home stands for str(Path.home()).
EtcPihole == <<"/", "e", "t", "c", "/", "p", "i", "h", "o", "l", "e">>

EtcDnsmasq == <<"/", "e", "t", "c", "/", "d", "n", "s", "m", "a", "s", "q", ".", "d">>

EtcCaddy == <<"/", "e", "t", "c", "/", "c", "a", "d", "d", "y">>

EtcCaddyConfig == <<"/", "e", "t", "c", "/", "c", "a", "d", "d", "y", "_", "c", "o", "n", "f", "i", "g">>

EtcPihole2 == <<"/", "e", "t", "c", "/", "p", "i", "h", "o", "l", "e", "2">>

Home == <<"/", "h", "o", "m", "e", "/", "u">>

HomeUData == <<"/", "h", "o", "m", "e", "/", "u", "/", "d", "a", "t", "a">>

HomeUA__B == <<"/", "h", "o", "m", "e", "/", "u", "/", "a", "_", "_", "b">>

HomeUASlashB == <<"/", "h", "o", "m", "e", "/", "u", "/", "a", "/", "b">>

Srv == <<"/", "s", "r", "v">>

SrvX == <<"/", "s", "r", "v", "/", "x">>

EtcPiholeArc == <<"e", "t", "c", "_", "_", "p", "i", "h", "o", "l", "e", ".", "t", "a", "r", ".", "g", "z">>

HomeUDataArc == <<"h", "o", "m", "e", "_", "_", "u", "_", "_", "d", "a", "t", "a", ".", "t", "a", "r", ".", "g", "z">>

EtcDnsmasqArc == <<"e", "t", "c", "_", "_", "d", "n", "s", "m", "a", "s", "q", ".", "d", ".", "t", "a", "r", ".", "g", "z">>

\* DEFAULT_PREFIXES
DEFAULT_PREFIXES == <<Home, EtcPihole, EtcDnsmasq, EtcCaddy, EtcCaddyConfig>>

---------------------------------------------------------------------------
\* auto_patch_backup.py: the pure path functions

\* A mutant of safe_archive_name_from_src: the separator is replaced by a
\* single underscore.
safe_archive_name_single(src) ==
    LET RECURSIVE R(_)
        R(s) == IF s = <<>> THEN <<>>
                ELSE (IF Head(s) = "/" THEN <<"_">> ELSE <<Head(s)>>) \o R(Tail(s))
    IN  R(LStripSlash(src)) \o TarGz

\* safe_archive_name_from_src: /a/b/c -> a__b__c.tar.gz
safe_archive_name_from_src(src) ==
    ReplaceSlash(LStripSlash(src)) \o TarGz

\* A mutant of should_include_path: the prefix test without the separator.
should_include_no_sep(src, prefixes) ==
    \E i \in 1..Len(prefixes) :
        StartsWith(PathStr(src), PathStr(prefixes[i]))

\* should_include_path: the loop over the prefixes, returning at the first
\* prefix that matches.  Path(src) raises for no string, so src_norm is
\* always str(Path(src)).
RECURSIVE IncludeFrom(_, _, _)
IncludeFrom(src, prefixes, i) ==
    IF i > Len(prefixes) THEN FALSE
    ELSE LET p_norm   == PathStr(prefixes[i])
             src_norm == PathStr(src)
         IN  IF src_norm = p_norm \/ StartsWith(src_norm, p_norm \o Sep)
             THEN TRUE
             ELSE IncludeFrom(src, prefixes, i + 1)

should_include_path(src, prefixes) == IncludeFrom(src, prefixes, 1)

---------------------------------------------------------------------------
\* add_adlists.py: the adlist provisioner

\* ADLISTS
ADLISTS ==
    << [url |-> "https://big.oisd.nl/", comment |-> "OISD Big"],
       [url |-> "https://v.firebog.net/hosts/Easyprivacy.txt",
        comment |-> "EasyPrivacy (Firebog)"],
       [url |-> "https://v.firebog.net/hosts/AdguardDNS.txt",
        comment |-> "AdGuard DNS (Firebog)"] >>

DEFAULT_GROUP_ID == 0

\* The tables edit_db_on_host requires.
need == {"adlist", "adlist_by_group", "group"}

\* gravity.db: the tables it has and their rows.  The "group" and adlist
\* tables are sets of rows, so that two rows with one key can be told apart
\* from one; adlist_by_group is the list of its rows in insertion order.
\* The keys that make INSERT OR IGNORE ignore are those of Pi-hole's schema:
\* "group".id, adlist.address and adlist_by_group(adlist_id, group_id).

\* The id SQLite gives a new adlist row: one more than the largest.
NextId(rows) ==
    IF rows = {} THEN 1
    ELSE 1 + CHOOSE m \in {r.id : r \in rows} : \A r \in rows : r.id <= m

\* The statements of ensure_default_group_sql(), and of lines 89-91.
ensure_default_group_sql ==
    << [op |-> "insert_group"], [op |-> "enable_group"] >>

\* The statements of upsert_adlist_sql(url, comment), and of lines 95-107.
\* No configured url or comment holds a quote, so the quoted SQL literal
\* denotes the same string as the bound parameter.
upsert_adlist_sql(url, comment) ==
    << [op |-> "insert_adlist", url |-> url, comment |-> comment],
       [op |-> "update_adlist", url |-> url, comment |-> comment],
       [op |-> "link", url |-> url] >>

\* Which table a statement writes, and which tables it names.
WrittenTable(st) ==
    CASE st.op \in {"insert_group", "enable_group"}   -> "group"
      [] st.op \in {"insert_adlist", "update_adlist"} -> "adlist"
      [] st.op = "link"                               -> "adlist_by_group"

NamedTables(st) ==
    IF st.op = "link" THEN {"adlist_by_group", "adlist"} ELSE {WrittenTable(st)}

\* A mutant of InsertLink: a plain INSERT, which adds the link again.
InsertLinkAgain(d, url) ==
    LET ids == {r.id : r \in {x \in d.adlist : x.address = url}}
        RECURSIVE Rows(_)
        Rows(S) == IF S = {} THEN <<>>
                   ELSE LET i == CHOOSE j \in S : \A k \in S : j <= k
                        IN  <<[adlist_id |-> i, group_id |-> DEFAULT_GROUP_ID]>>
                                \o Rows(S \ {i})
    IN  [d EXCEPT !.adlist_by_group = @ \o Rows(ids)]

\* INSERT OR IGNORE INTO adlist_by_group(adlist_id, group_id)
\* SELECT id, 0 FROM adlist WHERE address = url
InsertLink(d, url) ==
    LET have == {d.adlist_by_group[i] : i \in 1..Len(d.adlist_by_group)}
        ids  == {r.id : r \in {x \in d.adlist : x.address = url}}
        new  == {i \in ids :
                    [adlist_id |-> i, group_id |-> DEFAULT_GROUP_ID] \notin have}
        RECURSIVE Rows(_)
        Rows(S) == IF S = {} THEN <<>>
                   ELSE LET i == CHOOSE j \in S : \A k \in S : j <= k
                        IN  <<[adlist_id |-> i, group_id |-> DEFAULT_GROUP_ID]>>
                                \o Rows(S \ {i})
    IN  [d EXCEPT !.adlist_by_group = @ \o Rows(new)]

\* A mutant of UpdateAdlist: the UPDATE sets the comment and leaves enabled.
UpdateAdlistCommentOnly(d, url, comment, t) ==
    [d EXCEPT !.adlist =
        {IF r.address = url
         THEN [r EXCEPT !.date_modified = t, !.comment = comment]
         ELSE r : r \in @}]

\* UPDATE adlist SET enabled=1, date_modified=now, comment=? WHERE address=?
UpdateAdlist(d, url, comment, t) ==
    [d EXCEPT !.adlist =
        {IF r.address = url
         THEN [r EXCEPT !.enabled = 1, !.date_modified = t, !.comment = comment]
         ELSE r : r \in @}]

\* INSERT OR IGNORE INTO adlist(address, enabled, date_added, date_modified,
\* comment) VALUES (?, 1, now, now, ?)
InsertAdlist(d, url, comment, t) ==
    IF \E r \in d.adlist : r.address = url THEN d
    ELSE [d EXCEPT !.adlist = @ \cup
            {[id |-> NextId(d.adlist), address |-> url, enabled |-> 1,
              date_added |-> t, date_modified |-> t, comment |-> comment]}]

\* INSERT OR IGNORE INTO "group"(id, enabled, name, description)
\* VALUES (0, 1, 'Default', 'Auto-created')
InsertGroup(d) ==
    IF \E g \in d.group : g.id = DEFAULT_GROUP_ID THEN d
    ELSE [d EXCEPT !.group = @ \cup
            {[id |-> DEFAULT_GROUP_ID, enabled |-> 1, name |-> "Default",
              description |-> "Auto-created"]}]

\* UPDATE "group" SET enabled=1 WHERE id=0
EnableGroup(d) ==
    [d EXCEPT !.group =
        {IF g.id = DEFAULT_GROUP_ID THEN [g EXCEPT !.enabled = 1] ELSE g :
            g \in @}]

\* One statement against database d at time t.  A statement that names a
\* table the database lacks fails and changes nothing.
StmtOk(d, st) == NamedTables(st) \subseteq d.tables

ExecStmt(d, st, t) ==
    IF ~StmtOk(d, st) THEN d
    ELSE CASE st.op = "insert_group"  -> InsertGroup(d)
           [] st.op = "enable_group"  -> EnableGroup(d)
           [] st.op = "insert_adlist" -> InsertAdlist(d, st.url, st.comment, t)
           [] st.op = "update_adlist" -> UpdateAdlist(d, st.url, st.comment, t)
           [] st.op = "link"          -> InsertLink(d, st.url)

\* The statements of a script, one after the other.
RECURSIVE ExecAll(_, _, _)
ExecAll(d, script, t) ==
    IF script = <<>> THEN d
    ELSE ExecAll(ExecStmt(d, Head(script), t), Tail(script), t)

\* The upserts of ADLISTS[i], ADLISTS[i+1], ... (the loops of lines 94 and 158).
RECURSIVE UpsertsFrom(_)
UpsertsFrom(i) ==
    IF i > Len(ADLISTS) THEN <<>>
    ELSE upsert_adlist_sql(ADLISTS[i].url, ADLISTS[i].comment)
            \o UpsertsFrom(i + 1)

\* A mutant of ProvisionScript: the links are written before the default
\* group is ensured.
ProvisionScriptGroupLast == UpsertsFrom(1) \o ensure_default_group_sql

\* The statements both paths run: main() lines 157-159 build them as one SQL
\* text, edit_db_on_host lines 88-107 executes them one by one.
ProvisionScript == ensure_default_group_sql \o UpsertsFrom(1)

\* The statements of a script that ran without error, in order.
RECURSIVE Executed(_, _, _)
Executed(d, script, t) ==
    IF script = <<>> THEN <<>>
    ELSE (IF StmtOk(d, Head(script)) THEN <<Head(script)>> ELSE <<>>)
            \o Executed(ExecStmt(d, Head(script), t), Tail(script), t)

\* What the claims compare of gravity.db: the rows without their timestamps.
Proj(d) ==
    [group0 |-> {g \in d.group : g.id = DEFAULT_GROUP_ID},
     adlist |-> {[id |-> r.id, address |-> r.address, enabled |-> r.enabled,
                  comment |-> r.comment] : r \in d.adlist},
     links  |-> d.adlist_by_group]

\* The largest number of runs of the provisioner in one behaviour.
MaxRuns == 2

\* The databases a run may find.  Each configured url is absent, or present:
\* disabled or enabled, with its configured comment or another one, linked
\* to group 0 or not (four of the eight combinations, each value of each
\* column in two of them); the row of url i has id i and a row of another
\* address has id 4.  Group 0 is absent, disabled or enabled.  A database
\* that lacks a required table has no rows.
RowShapes ==
    {[present |-> FALSE, enabled |-> 0, old |-> FALSE, linked |-> FALSE],
     [present |-> TRUE,  enabled |-> 0, old |-> TRUE,  linked |-> FALSE],
     [present |-> TRUE,  enabled |-> 0, old |-> FALSE, linked |-> TRUE],
     [present |-> TRUE,  enabled |-> 1, old |-> TRUE,  linked |-> TRUE],
     [present |-> TRUE,  enabled |-> 1, old |-> FALSE, linked |-> FALSE]}

OtherAddress == "https://example.org/other.txt"

RECURSIVE LinksOf(_, _, _)
LinksOf(shapes, other, i) ==
    IF i > Len(ADLISTS) + 1 THEN <<>>
    ELSE (IF (i <= Len(ADLISTS) /\ shapes[i].present /\ shapes[i].linked)
             \/ (i = Len(ADLISTS) + 1 /\ other)
          THEN <<[adlist_id |-> i, group_id |-> DEFAULT_GROUP_ID]>>
          ELSE <<>>) \o LinksOf(shapes, other, i + 1)

DbOf(shapes, other, g0) ==
    [tables |-> need,
     group  |-> IF g0 = "absent" THEN {}
                ELSE {[id |-> DEFAULT_GROUP_ID,
                       enabled |-> IF g0 = "enabled" THEN 1 ELSE 0,
                       name |-> "Default", description |-> "The default group"]},
     adlist |-> {[id |-> i, address |-> ADLISTS[i].url,
                  enabled |-> shapes[i].enabled, date_added |-> 0,
                  date_modified |-> 0,
                  comment |-> IF shapes[i].old THEN "old comment"
                              ELSE ADLISTS[i].comment] :
                    i \in {j \in 1..Len(ADLISTS) : shapes[j].present}}
                \cup (IF other
                      THEN {[id |-> Len(ADLISTS) + 1, address |-> OtherAddress,
                             enabled |-> 1, date_added |-> 0, date_modified |-> 0,
                             comment |-> "other"]}
                      ELSE {}),
     adlist_by_group |-> LinksOf(shapes, other, 1)]

EmptyDb(tables) ==
    [tables |-> tables, group |-> {}, adlist |-> {}, adlist_by_group |-> <<>>]

InitDbs ==
    {DbOf(shapes, other, g0) :
        shapes \in [1..Len(ADLISTS) -> RowShapes], other \in BOOLEAN,
        g0 \in {"absent", "disabled", "enabled"}}
    \cup {EmptyDb(t) : t \in SUBSET need}

NoArgs == [dry_run |-> FALSE, list |-> FALSE, container |-> "auto"]

InitProvIdle ==
    /\ provPc = "idle"
    /\ provArgs = NoArgs
    /\ has_sqlite3 = FALSE
    /\ db = EmptyDb(need)
    /\ db0 = db
    /\ now = 0
    /\ provCalls = <<>>
    /\ stmts = <<>>
    /\ provExit = -1
    /\ provRuns = 0
    /\ applies = 0
    /\ afterFirst = <<>>

InitProv ==
    /\ provPc = "ready"
    /\ provArgs = NoArgs
    /\ has_sqlite3 = FALSE
    /\ db \in InitDbs
    /\ db0 = db
    /\ now = 0
    /\ provCalls = <<>>
    /\ stmts = <<>>
    /\ provExit = -1
    /\ provRuns = 0
    /\ applies = 0
    /\ afterFirst = <<>>

\* main() lines 140-146: the arguments are parsed, and without --container
\* the container is looked up among the running ones.
Detection(container) == IF container = "auto" THEN <<"docker ps">> ELSE <<>>

ProvBegin(dry, list, container) ==
    /\ provPc = "ready"
    /\ provRuns < MaxRuns
    /\ provRuns' = provRuns + 1
    /\ provArgs' = [dry_run |-> dry, list |-> list, container |-> container]
    /\ now' = now + 1
    /\ stmts' = <<>>

\* detect_container_name finds no Pi-hole container: SystemExit.
ProvDetectFail ==
    \E dry \in BOOLEAN :
        /\ ProvBegin(dry, FALSE, "auto")
        /\ provCalls' = <<"docker ps">>
        /\ provExit' = 1
        /\ provPc' = "ready"
        /\ UNCHANGED <<has_sqlite3, db, db0, applies, afterFirst>>

\* list_current_adlists: a query in the container, or on a copy of the file.
ListCalls(hs) ==
    <<"sqlite3 check">> \o
        (IF hs THEN <<"docker exec select">> ELSE <<"docker cp out">>)

\* main() lines 148-150: --list.
ProvList ==
    \E container \in {"auto", "given"}, hs \in BOOLEAN :
        /\ ProvBegin(FALSE, TRUE, container)
        /\ has_sqlite3' = hs
        /\ provCalls' = Detection(container) \o ListCalls(hs)
        /\ provExit' = 0
        /\ provPc' = "ready"
        /\ UNCHANGED <<db, db0, applies, afterFirst>>

\* main() lines 146-153: the container is known and the run goes on.
ProvResolve ==
    \E dry \in BOOLEAN, container \in {"auto", "given"}, hs \in BOOLEAN :
        /\ ProvBegin(dry, FALSE, container)
        /\ has_sqlite3' = hs
        /\ provCalls' = Detection(container)
        /\ provPc' = "resolved"
        /\ UNCHANGED <<db, db0, provExit, applies, afterFirst>>

\* main() lines 155-163: the container has sqlite3.  The SQL is built; a dry
\* run prints it, any other run executes it in the container.  The sqlite3
\* shell goes on after a statement that fails and exits non-zero at the end,
\* which run() raises as CalledProcessError.
ProvFastPath ==
    /\ provPc = "resolved"
    /\ has_sqlite3
    /\ LET sql == ProvisionScript IN
       IF provArgs.dry_run
       THEN /\ provCalls' = provCalls \o <<"sqlite3 check">>
            /\ provPc' = "applied"
            /\ UNCHANGED <<db, stmts, provExit>>
       ELSE /\ provCalls' = provCalls \o <<"sqlite3 check", "docker exec sqlite3">>
            /\ db' = ExecAll(db, sql, now)
            /\ stmts' = Executed(db, sql, now)
            /\ IF \A i \in 1..Len(sql) : NamedTables(sql[i]) \subseteq db.tables
               THEN provPc' = "applied" /\ UNCHANGED provExit
               ELSE provPc' = "ready" /\ provExit' = 1
    /\ UNCHANGED <<provArgs, has_sqlite3, db0, now, provRuns, applies, afterFirst>>

\* A mutant of schema_miss: the sanity check finds nothing missing.
schema_miss_none(d) == {}

\* edit_db_on_host lines 80-84: the required tables the copy lacks.
schema_miss(d) == need \ d.tables

\* edit_db_on_host lines 88-107: the statement at which sqlite3 raises (a
\* locked file, a table with other columns), 0 for none.
SqliteErrorAt == {0, 1, 4}

\* main() lines 164-173: the container has no sqlite3.  The database is
\* copied out; a dry run says so, any other run edits the copy
\* (edit_db_on_host: SystemExit when a table is missing; else the statements
\* and the commit, and when a statement raises the copy is closed without
\* commit and the exception ends the run) and copies it back.
ProvFallback ==
    /\ provPc = "resolved"
    /\ ~has_sqlite3
    /\ LET local_db == db IN
       IF provArgs.dry_run
       THEN /\ provCalls' = provCalls \o <<"sqlite3 check", "docker cp out">>
            /\ provPc' = "applied"
            /\ UNCHANGED <<db, stmts, provExit>>
       ELSE LET miss == schema_miss(local_db) IN
            IF miss # {}
            THEN /\ provCalls' = provCalls \o
                        <<"sqlite3 check", "docker cp out", "edit_db_on_host">>
                 /\ provPc' = "ready"
                 /\ provExit' = 1
                 /\ UNCHANGED <<db, stmts>>
            ELSE \E failAt \in SqliteErrorAt :
                 IF failAt # 0
                 THEN /\ provCalls' = provCalls \o
                            <<"sqlite3 check", "docker cp out", "edit_db_on_host">>
                      /\ stmts' = SubSeq(Executed(local_db, ProvisionScript, now),
                                         1, failAt - 1)
                      /\ provPc' = "ready"
                      /\ provExit' = 1
                      /\ UNCHANGED db
                 ELSE /\ provCalls' = provCalls \o
                            <<"sqlite3 check", "docker cp out", "edit_db_on_host",
                              "docker cp back">>
                      /\ stmts' = Executed(local_db, ProvisionScript, now)
                      /\ db' = ExecAll(local_db, ProvisionScript, now)
                      /\ provPc' = "applied"
                      /\ UNCHANGED provExit
    /\ UNCHANGED <<provArgs, has_sqlite3, db0, now, provRuns, applies, afterFirst>>

\* main() lines 175-177: a dry run ends here.
ProvDryRunExit ==
    /\ provPc = "applied"
    /\ provArgs.dry_run
    /\ provExit' = 0
    /\ provPc' = "ready"
    /\ UNCHANGED <<provArgs, has_sqlite3, db, db0, now, provCalls, stmts,
                   provRuns, applies, afterFirst>>

\* main() lines 179-182: gravity is rebuilt and the adlists are listed.
ProvGravityAndList ==
    /\ provPc = "applied"
    /\ ~provArgs.dry_run
    /\ provCalls' = provCalls \o <<"pihole -g">> \o ListCalls(has_sqlite3)
    /\ provExit' = 0
    /\ provPc' = "ready"
    /\ applies' = applies + 1
    /\ afterFirst' = IF applies = 0 THEN <<Proj(db)>> ELSE afterFirst
    /\ UNCHANGED <<provArgs, has_sqlite3, db, db0, now, stmts, provRuns>>

---------------------------------------------------------------------------
\* auto_patch_backup.py: the backup patcher

\* Further host paths and archive names of the modelled host.
VolumeSource == <<"/", "v", "a", "r", "/", "l", "i", "b", "/", "d", "o", "c", "k", "e", "r", "/", "v", "o", "l", "u", "m", "e", "s", "/", "v", "/", "_", "d", "a", "t", "a">>

HomeUA__BArc == <<"h", "o", "m", "e", "_", "_", "u", "_", "_", "a", "_", "_", "b", ".", "t", "a", "r", ".", "g", "z">>

NotesArc == <<"n", "o", "t", "e", "s", ".", "t", "a", "r", ".", "g", "z">>

PathA == <<"/", "a">>

PathB == <<"/", "b">>

ATarGz == <<"a", ".", "t", "a", "r", ".", "g", "z">>

BTarGz == <<"b", ".", "t", "a", "r", ".", "g", "z">>

\* read_latest_backup and main lines 169-170: the snapshot directory a run
\* resolves, "none" when there is none.  backup is the --backup argument
\* ("absent", or a path that "exists" or is "missing"), latest the LATEST
\* pointer ("absent", "empty", "dangling", "valid"), root the directory
\* ~/homelab-backups ("absent", "nodirs", "dirs").
read_latest_backup(latest, root) ==
    IF latest = "valid" THEN "latest"
    ELSE IF root = "dirs" THEN "lastdir"
    ELSE "none"

backup_root(backup, latest, root) ==
    IF backup = "exists" THEN "arg"
    ELSE IF backup = "missing" THEN "none"
    ELSE read_latest_backup(latest, root)

BackupEnvs ==
    [backup : {"absent", "exists", "missing"},
     latest : {"absent", "empty", "dangling", "valid"},
     root   : {"absent", "nodirs", "dirs"}]

\* list_archives(dirpath)
list_archives(exists, names) == IF exists THEN names ELSE {}

\* main lines 190-193: the prefixes without repetition, first occurrence kept.
RECURSIVE DedupeFrom(_, _, _)
DedupeFrom(seq, i, seen) ==
    IF i > Len(seq) THEN <<>>
    ELSE IF seq[i] \in seen THEN DedupeFrom(seq, i + 1, seen)
    ELSE <<seq[i]>> \o DedupeFrom(seq, i + 1, seen \cup {seq[i]})

AllowedPrefixes(extra_prefix) == DedupeFrom(DEFAULT_PREFIXES \o extra_prefix, 1, {})

\* gather_container_mounts: the bind mounts of each container that docker
\* inspect describes, in the order of the containers.
binds_of(mounts) == SelectSeq(mounts, LAMBDA m : m.Type = "bind")

RECURSIVE gather_container_mounts(_, _)
gather_container_mounts(containers, ins) ==
    IF containers = <<>> THEN <<>>
    ELSE (IF ins[Head(containers)].ok
          THEN <<[name  |-> Head(containers),
                  binds |-> binds_of(ins[Head(containers)].mounts)]>>
          ELSE <<>>) \o gather_container_mounts(Tail(containers), ins)

\* main lines 204-206: the two Pi-hole paths, when allowed and on the host.
RECURSIVE MustCandidates(_, _, _)
MustCandidates(musts, allow, paths) ==
    IF musts = <<>> THEN <<>>
    ELSE (IF should_include_path(Head(musts), allow) /\ Head(musts) \in paths
          THEN <<[cname |-> "pihole", src |-> Head(musts), dst |-> Head(musts)]>>
          ELSE <<>>) \o MustCandidates(Tail(musts), allow, paths)

\* A mutant of BindCandidates: a source that is not on the host is kept.
RECURSIVE BindCandidatesNoExists(_, _, _, _)
BindCandidatesNoExists(cname, binds, allow, paths) ==
    IF binds = <<>> THEN <<>>
    ELSE LET m   == Head(binds)
             src == m.Source
             dst == IF m.Destination # <<>> THEN m.Destination ELSE m.Target
         IN  (IF src = <<>> \/ dst = <<>> THEN <<>>
              ELSE IF should_include_path(src, allow)
              THEN <<[cname |-> cname, src |-> src, dst |-> dst]>>
              ELSE <<>>) \o BindCandidatesNoExists(cname, Tail(binds), allow, paths)

\* main lines 210-216: the bind mounts of one container with a source and a
\* destination, whose source is on the host and allowed.
RECURSIVE BindCandidates(_, _, _, _)
BindCandidates(cname, binds, allow, paths) ==
    IF binds = <<>> THEN <<>>
    ELSE LET m   == Head(binds)
             src == m.Source
             dst == IF m.Destination # <<>> THEN m.Destination ELSE m.Target
         IN  (IF src = <<>> \/ dst = <<>> THEN <<>>
              ELSE IF src \in paths /\ should_include_path(src, allow)
              THEN <<[cname |-> cname, src |-> src, dst |-> dst]>>
              ELSE <<>>) \o BindCandidates(cname, Tail(binds), allow, paths)

\* main lines 209-216: over the containers inspected.
RECURSIVE InfoCandidates(_, _, _)
InfoCandidates(info, allow, paths) ==
    IF info = <<>> THEN <<>>
    ELSE BindCandidates(Head(info).name, Head(info).binds, allow, paths)
            \o InfoCandidates(Tail(info), allow, paths)

\* main lines 218-226: one candidate for each source path, the first kept.
RECURSIVE FilterBySrc(_, _)
FilterBySrc(candidates, seen_src) ==
    IF candidates = <<>> THEN <<>>
    ELSE IF Head(candidates).src \in seen_src
    THEN FilterBySrc(Tail(candidates), seen_src)
    ELSE <<Head(candidates)>>
            \o FilterBySrc(Tail(candidates), seen_src \cup {Head(candidates).src})

\* main lines 201-226
Filtered(containers, ins, allow, paths) ==
    FilterBySrc(MustCandidates(<<EtcPihole, EtcDnsmasq>>, allow, paths)
                    \o InfoCandidates(gather_container_mounts(containers, ins),
                                      allow, paths),
                {})

\* main lines 236-240: the candidates whose archive name is not there yet.
RECURSIVE MissingOf(_, _)
MissingOf(filtered, have) ==
    IF filtered = <<>> THEN <<>>
    ELSE LET c   == Head(filtered)
             arc == safe_archive_name_from_src(c.src)
         IN  (IF arc \notin have
              THEN <<[cname |-> c.cname, src |-> c.src, dst |-> c.dst, arc |-> arc]>>
              ELSE <<>>) \o MissingOf(Tail(filtered), have)

\* The most archive steps that fail in one run.
MaxFailures == 2

\* The mounts docker inspect may report.  A destination is the source path
\* again, or empty.
Mount(type, src, dst) ==
    [Type |-> type, Source |-> src, Destination |-> dst, Target |-> <<>>]

MountPool ==
    {Mount("bind", EtcPihole, EtcPihole),
     Mount("bind", HomeUData, HomeUData),
     Mount("bind", HomeUA__B, HomeUA__B),
     Mount("bind", HomeUASlashB, HomeUASlashB),
     Mount("bind", EtcPihole2, EtcPihole2),
     Mount("bind", SrvX, SrvX),
     Mount("bind", <<>>, HomeUData),
     Mount("bind", HomeUData, <<>>),
     Mount("volume", VolumeSource, HomeUData)}

InspectFails == [ok |-> FALSE, mounts |-> <<>>]

PiholeInspects ==
    {InspectFails, [ok |-> TRUE, mounts |-> <<>>]}
        \cup {[ok |-> TRUE, mounts |-> <<m>>] : m \in MountPool}

CaddyInspects ==
    {InspectFails, [ok |-> TRUE, mounts |-> <<>>]}
        \cup {[ok |-> TRUE, mounts |-> <<m>>] :
                m \in {Mount("bind", EtcPihole, EtcPihole),
                       Mount("bind", HomeUData, HomeUData),
                       Mount("bind", HomeUASlashB, HomeUASlashB),
                       Mount("bind", SrvX, SrvX)}}

AllHostPaths ==
    {EtcPihole, EtcDnsmasq, EtcPihole2, HomeUData, HomeUA__B, HomeUASlashB,
     SrvX, VolumeSource}

HostPathSets ==
    {AllHostPaths, AllHostPaths \ {EtcDnsmasq},
     AllHostPaths \ {EtcDnsmasq, HomeUData}}

\* bind-mounts/ before the run: absent, empty, or holding some archives.
Snapshots ==
    {[bindDir |-> FALSE, archives |-> {}],
     [bindDir |-> TRUE,  archives |-> {}],
     [bindDir |-> TRUE,  archives |-> {EtcPiholeArc, NotesArc}],
     [bindDir |-> TRUE,  archives |-> {HomeUA__BArc}]}

NoPatchArgs ==
    [containers |-> <<>>, extra_prefix |-> <<>>, dry_run |-> FALSE,
     rebuild_image |-> FALSE]

InitPatchIdle ==
    /\ patchPc = "idle"
    /\ patchArgs = NoPatchArgs
    /\ hostPaths = {}
    /\ inspect = <<>>
    /\ bindDir = FALSE
    /\ archives = {}
    /\ snapshot0 = [bindDir |-> FALSE, archives |-> {}]
    /\ allowed = <<>>
    /\ existing = {}
    /\ missing = <<>>
    /\ ensureExisting = {}
    /\ idx = 0
    /\ created = <<>>
    /\ failures = 0
    /\ patchCalls = <<>>
    /\ afterReport = {}
    /\ patchExit = -1

InitPatch ==
    /\ patchPc = "start"
    /\ patchArgs \in [containers : {<<"pihole", "caddy">>},
                      extra_prefix : {<<>>, <<Srv>>},
                      dry_run : BOOLEAN,
                      rebuild_image : BOOLEAN]
    /\ hostPaths \in HostPathSets
    /\ \E pi \in PiholeInspects, ca \in CaddyInspects :
            inspect = [c \in {"pihole", "caddy"} |->
                            IF c = "pihole" THEN pi ELSE ca]
    /\ \E snap \in Snapshots :
            /\ bindDir = snap.bindDir
            /\ archives = snap.archives
            /\ snapshot0 = snap
    /\ allowed = <<>>
    /\ existing = {}
    /\ missing = <<>>
    /\ ensureExisting = {}
    /\ idx = 0
    /\ created = <<>>
    /\ failures = 0
    /\ patchCalls = <<>>
    /\ afterReport = {}
    /\ patchExit = -1

\* One external command of the patcher: what ran, for which container or
\* source path, into which archive, and whether it succeeded.
Cmd(cmd, who, src, arc, ok) ==
    [cmd |-> cmd, who |-> who, src |-> src, arc |-> arc, ok |-> ok]

RECURSIVE InspectCalls(_, _)
InspectCalls(containers, ins) ==
    IF containers = <<>> THEN <<>>
    ELSE <<Cmd("docker inspect", Head(containers), <<>>, <<>>,
               ins[Head(containers)].ok)>>
            \o InspectCalls(Tail(containers), ins)

\* main lines 169-174, over the --backup argument, the "latest" pointer and
\* the backup root there may be: whether a snapshot directory is resolved.
NoSnapshotPossible ==
    (\E env \in BackupEnvs :
        backup_root(env.backup, env.latest, env.root) = "none") = TRUE

SnapshotPossible ==
    (\E env \in BackupEnvs :
        backup_root(env.backup, env.latest, env.root) # "none") = TRUE

\* main lines 169-174: no snapshot directory can be resolved.
PatchNoBackup ==
    /\ patchPc = "start"
    /\ NoSnapshotPossible
    /\ patchPc' = "exited"
    /\ patchExit' = 2
    /\ UNCHANGED <<patchArgs, hostPaths, inspect, bindDir, archives, snapshot0,
                   allowed, existing, missing, ensureExisting, idx, created, failures,
                   patchCalls, afterReport>>

\* main lines 184-187: sudo -v fails.
PatchSudoFail ==
    /\ patchPc = "start"
    /\ SnapshotPossible
    /\ ~patchArgs.dry_run
    /\ patchCalls' = <<Cmd("sudo -v", "", <<>>, <<>>, FALSE)>>
    /\ patchPc' = "exited"
    /\ patchExit' = 1
    /\ UNCHANGED <<patchArgs, hostPaths, inspect, bindDir, archives, snapshot0,
                   allowed, existing, missing, ensureExisting, idx, created, failures,
                   afterReport>>

\* main lines 169-247: the snapshot is resolved, sudo is pre-authenticated
\* (unless dry-run), the containers are inspected, the candidates gathered
\* and de-duplicated, the archives present listed and the missing computed.
PatchPrepare ==
    /\ patchPc = "start"
    /\ SnapshotPossible
    /\ patchCalls' =
            (IF patchArgs.dry_run THEN <<>>
             ELSE <<Cmd("sudo -v", "", <<>>, <<>>, TRUE)>>)
                \o InspectCalls(patchArgs.containers, inspect)
    /\ allowed' = AllowedPrefixes(patchArgs.extra_prefix)
    /\ existing' = list_archives(bindDir, archives)
    /\ missing' = MissingOf(Filtered(patchArgs.containers, inspect, allowed',
                                     hostPaths),
                            existing')
    /\ patchPc' = "ensure"
    /\ UNCHANGED <<patchArgs, hostPaths, inspect, bindDir, archives, snapshot0,
                   ensureExisting, idx, created, failures, afterReport, patchExit>>

\* ensure_bind_archives lines 123-125: bind_dir is created if it is not
\* there, and its archives are listed.
EnsureBegin ==
    /\ patchPc = "ensure"
    /\ created' = <<>>
    /\ bindDir' = TRUE
    /\ ensureExisting' = list_archives(bindDir', archives)
    /\ idx' = 1
    /\ patchPc' = "loop"
    /\ UNCHANGED <<patchArgs, hostPaths, inspect, archives, snapshot0, allowed,
                   existing, missing, failures, patchCalls, afterReport, patchExit>>

\* A mutant of OnArchiveError: the failure ends the run.
ArchiveErrorAborts == [pc |-> "exited", exit |-> 1]

\* ensure_bind_archives lines 149-150: CalledProcessError is caught and
\* reported, and the loop goes on.
OnArchiveError == [pc |-> "loop", exit |-> -1]

\* ensure_bind_archives lines 127-150: one item of bind_mounts.  tar may
\* fail, leaving a partial archive file or none; chown may fail after tar
\* succeeded.
ArchiveStep ==
    /\ patchPc = "loop"
    /\ idx <= Len(missing)
    /\ idx' = idx + 1
    /\ LET src == missing[idx].src
           arc == safe_archive_name_from_src(src)
       IN
       IF arc \in ensureExisting
       THEN UNCHANGED <<archives, created, failures, patchCalls, patchPc, patchExit>>
       ELSE IF patchArgs.dry_run
       THEN /\ created' = Append(created, arc)
            /\ UNCHANGED <<archives, failures, patchCalls, patchPc, patchExit>>
       ELSE \E outcome \in {"ok", "tar failed", "tar failed, file left",
                            "chown failed"} :
            /\ outcome # "ok" => failures < MaxFailures
            /\ failures' = IF outcome = "ok" THEN failures ELSE failures + 1
            /\ archives' = IF outcome = "tar failed" THEN archives
                           ELSE archives \cup {arc}
            /\ patchCalls' = patchCalls \o
                 (IF outcome \in {"tar failed", "tar failed, file left"}
                  THEN <<Cmd("sudo tar", missing[idx].cname, src, arc, FALSE)>>
                  ELSE <<Cmd("sudo tar", missing[idx].cname, src, arc, TRUE),
                         Cmd("sudo chown", missing[idx].cname, src, arc,
                             outcome = "ok")>>)
            /\ created' = IF outcome = "ok" THEN Append(created, arc) ELSE created
            /\ patchPc' = IF outcome = "ok" THEN "loop" ELSE OnArchiveError.pc
            /\ patchExit' = IF outcome = "ok" THEN patchExit
                            ELSE OnArchiveError.exit
    /\ UNCHANGED <<patchArgs, hostPaths, inspect, bindDir, snapshot0, allowed,
                   existing, missing, ensureExisting, afterReport>>

\* main lines 252-269: the AFTER report, and with --rebuild-image the
\* rebuild script when it is there; its failure is reported and the run ends
\* normally.
PatchReport ==
    /\ patchPc = "loop"
    /\ idx > Len(missing)
    /\ LET final == list_archives(bindDir, archives) IN
       afterReport' = {[name |-> n, new |-> n \in {created[i] : i \in 1..Len(created)}] :
                            n \in final}
    /\ \E script \in {"absent", "succeeds", "fails"} :
            patchCalls' =
                IF patchArgs.rebuild_image /\ script # "absent"
                THEN Append(patchCalls,
                            Cmd("make-backup-image.sh", "", <<>>, <<>>,
                                script = "succeeds"))
                ELSE patchCalls
    /\ patchPc' = "exited"
    /\ patchExit' = 0
    /\ UNCHANGED <<patchArgs, hostPaths, inspect, bindDir, archives, snapshot0,
                   allowed, existing, missing, ensureExisting, idx, created, failures>>

---------------------------------------------------------------------------
\* inspect_backup_image.py: the backup image inspector

Tag1 == "homelab-backup:2025-08-11_010000"

Tag2 == "homelab-backup:2025-08-12_201735"

TagGone == "homelab-backup:2024-01-01_000000"

\* list_backup_images: the sorted homelab-backup:* images, none when docker
\* images fails.
ImageLists == {<<>>, <<Tag1>>, <<Tag1, Tag2>>}

\* autodetect_image
autodetect_image(imgs) == IF imgs = <<>> THEN "none" ELSE imgs[Len(imgs)]

\* main lines 51-57: the image the run uses, "none" when there is none.
resolve_image(args, imgs) ==
    IF args.auto \/ args.image = "none"
    THEN LET auto == autodetect_image(imgs) IN
         IF args.auto THEN auto
         ELSE IF args.image = "none" /\ auto # "none" THEN auto
         ELSE args.image
    ELSE args.image

\* What containers.json may hold: no file, text that is not JSON, a list of
\* container objects, a JSON value that is false in Python ([], {}, 0, null),
\* or a true JSON value that is not a list of objects.
ContainersJsonKinds == {"missing", "unparseable", "list", "empty", "not_a_list"}

BundleEnvs ==
    {e \in [bundle : BOOLEAN, manifests : BOOLEAN,
            containers_json : ContainersJsonKinds] :
        ~e.manifests => e.containers_json = "missing"}

NoException == [type |-> "none", cmd |-> <<>>]

NoInspArgs == [image |-> "none", auto |-> FALSE]

InitInspIdle ==
    /\ inspPc = "idle"
    /\ inspArgs = NoInspArgs
    /\ images = <<>>
    /\ bundleEnv = [bundle |-> FALSE, manifests |-> FALSE,
                    containers_json |-> "missing"]
    /\ image = "none"
    /\ tmpDir = FALSE
    /\ made = FALSE
    /\ cid = "none"
    /\ raised = NoException
    /\ inspOut = <<>>
    /\ inspErr = <<>>
    /\ inspExit = -1

\* --image and --auto exclude each other.
InitInsp ==
    /\ inspPc = "start"
    /\ inspArgs \in {[image |-> "none", auto |-> FALSE],
                     [image |-> "none", auto |-> TRUE],
                     [image |-> Tag1, auto |-> FALSE],
                     [image |-> TagGone, auto |-> FALSE]}
    /\ images \in ImageLists
    /\ bundleEnv \in BundleEnvs
    /\ image = "none"
    /\ tmpDir = FALSE
    /\ made = FALSE
    /\ cid = "none"
    /\ raised = NoException
    /\ inspOut = <<>>
    /\ inspErr = <<>>
    /\ inspExit = -1

\* main lines 51-67: no image is resolved.
InspNoImage ==
    /\ inspPc = "start"
    /\ image' = resolve_image(inspArgs, images)
    /\ image' = "none"
    /\ inspErr' = inspErr \o <<"ERROR: No backup image found.", "Hints:">>
    /\ inspExit' = 2
    /\ inspPc' = "exited"
    /\ UNCHANGED <<inspArgs, images, bundleEnv, tmpDir, made, cid, raised,
                   inspOut>>

\* main lines 51-73: an image is resolved and the temporary directory made.
InspBegin ==
    /\ inspPc = "start"
    /\ image' = resolve_image(inspArgs, images)
    /\ image' # "none"
    /\ tmpDir' = TRUE
    /\ cid' = "none"
    /\ inspOut' = Append(inspOut, "Using image")
    /\ inspPc' = "create"
    /\ UNCHANGED <<inspArgs, images, bundleEnv, made, raised, inspErr,
                   inspExit>>

\* main line 74, create_container: docker create succeeds and prints the
\* id of the new container, or fails.  An image that is not there locally
\* cannot be created from.
InspCreate ==
    /\ inspPc = "create"
    /\ \E ok \in BOOLEAN :
        /\ ok => image \in {images[i] : i \in 1..Len(images)}
        /\ IF ok
           THEN /\ cid' = "c1"
                /\ made' = TRUE
                /\ inspPc' = "cp"
                /\ UNCHANGED raised
           ELSE /\ raised' = [type |-> "CalledProcessError",
                              cmd |-> <<"docker", "create", image>>]
                /\ inspPc' = "handler"
                /\ UNCHANGED <<cid, made>>
    /\ UNCHANGED <<inspArgs, images, bundleEnv, image, tmpDir, inspOut, inspErr,
                   inspExit>>

\* main lines 75-79: docker cp of /bundle, and the test that it arrived.
InspCopy ==
    /\ inspPc = "cp"
    /\ \E ok \in BOOLEAN :
        IF ~ok
        THEN /\ raised' = [type |-> "CalledProcessError",
                           cmd |-> <<"docker", "cp", "c1:/bundle", "tmp">>]
             /\ inspPc' = "handler"
             /\ UNCHANGED <<inspErr, inspExit>>
        ELSE IF ~bundleEnv.bundle
        THEN /\ inspErr' = Append(inspErr, "ERROR: /bundle not found inside the image.")
             /\ raised' = [type |-> "SystemExit", cmd |-> <<>>]
             /\ inspExit' = 3
             /\ inspPc' = "finally"
        ELSE /\ inspPc' = "report"
             /\ UNCHANGED <<raised, inspErr, inspExit>>
    /\ UNCHANGED <<inspArgs, images, bundleEnv, image, tmpDir, made, cid,
                   inspOut>>

\* main lines 92-96: containers as read from containers.json, and the
\* warning when it does not parse.
containers_of(env) ==
    IF env.containers_json \in {"missing", "unparseable"} THEN "empty"
    ELSE env.containers_json

\* main lines 81-181: the structural report, then the per-container section
\* or the note that it is skipped.  Iterating a value that is not a list of
\* objects raises (AttributeError or TypeError) at line 132 or 133, which no
\* handler catches.
InspReport ==
    /\ inspPc = "report"
    /\ LET containers == containers_of(bundleEnv)
           warn == IF bundleEnv.containers_json = "unparseable"
                   THEN <<"WARNING: could not parse containers.json">>
                   ELSE <<>>
           top  == <<"== Top-level presence ==",
                     IF bundleEnv.manifests THEN "manifests/: yes"
                     ELSE "manifests/: no">>
       IN
       IF containers = "empty"
       THEN /\ inspErr' = inspErr \o warn
                    \o <<"NOTE: containers.json missing; deep cross-check skipped.">>
            /\ inspOut' = inspOut \o top \o <<"== Done ==">>
            /\ inspExit' = 0
            /\ UNCHANGED raised
       ELSE IF containers = "list"
       THEN /\ inspErr' = inspErr \o warn
            /\ inspOut' = inspOut \o top
                    \o <<"== Per-container capture check ==", "== Done ==">>
            /\ inspExit' = 0
            /\ UNCHANGED raised
       ELSE /\ inspErr' = inspErr \o warn \o <<"Traceback">>
            /\ inspOut' = inspOut \o top
            /\ raised' = [type |-> "AttributeError", cmd |-> <<>>]
            /\ inspExit' = 1
    /\ inspPc' = "finally"
    /\ UNCHANGED <<inspArgs, images, bundleEnv, image, tmpDir, made, cid>>

\* CalledProcessError.args is (returncode, cmd): CalledProcessError passes
\* no argument to Exception.__init__, and BaseException.__new__ keeps the
\* arguments of the constructor call.
error_args(e) == <<[type |-> "int", val |-> <<>>],
                   [type |-> "list", val |-> e.cmd]>>

\* main line 184: " ".join(e.args[0]) when e.args is a list or tuple, which
\* it always is; str.join raises TypeError for what cannot be iterated.
\* The words of cmd_str stand for the string.
cmd_str(e) ==
    LET a == error_args(e)[1] IN
    IF a.type = "list" THEN [raises |-> FALSE, words |-> a.val]
    ELSE [raises |-> TRUE, words |-> <<>>]

\* main lines 183-204: the handler of CalledProcessError.
InspHandler ==
    /\ inspPc = "handler"
    /\ LET s == cmd_str(raised) IN
       IF s.raises
       THEN /\ raised' = [type |-> "TypeError", cmd |-> raised.cmd]
            /\ inspErr' = Append(inspErr, "Traceback")
       ELSE /\ raised' = [type |-> "SystemExit", cmd |-> raised.cmd]
            /\ inspErr' = inspErr \o
                 (IF "create" \in {s.words[i] : i \in 1..Len(s.words)}
                  THEN <<"ERROR: Could not create container from image">>
                         \o (IF images # <<>>
                             THEN <<"Available homelab-backup images:">>
                             ELSE <<"No homelab-backup images are present locally.",
                                    "Hints:">>)
                  ELSE <<"ERROR: Command failed">>)
    /\ inspExit' = 1
    /\ inspPc' = "finally"
    /\ UNCHANGED <<inspArgs, images, bundleEnv, image, tmpDir, made, cid,
                   inspOut>>

\* A mutant of container_after_finally: the container is removed only
\* when the run ends normally.
container_after_normal_only(c, there, status) ==
    IF c # "none" /\ status = 0 THEN FALSE ELSE there

\* main lines 206-208 and rm_container: docker rm -f of the container made,
\* if one was made; docker rm -f is taken to remove it.
container_after_finally(c, there, status) ==
    IF c # "none" THEN FALSE ELSE there

\* main lines 205-210: the finally clause, on every way out of the try
\* block; rmtree is taken to remove the directory the run made itself.
InspFinally ==
    /\ inspPc = "finally"
    /\ made' = container_after_finally(cid, made, inspExit)
    /\ tmpDir' = FALSE
    /\ inspPc' = "exited"
    /\ UNCHANGED <<inspArgs, images, bundleEnv, image, cid, raised, inspOut,
                   inspErr, inspExit>>

---------------------------------------------------------------------------
\* The pure path functions applied to bounded inputs (SpecPath)

\* The longest generated source path and prefix, and the longest generated
\* tail below the home directory.
MaxPathLen == 4

MaxPrefixLen == 2

MaxTailLen == 3

IncludeAlphabet == {"/", "a", "."}

NameAlphabet == {"/", "a", "_"}

PrefixPool == StrOver(IncludeAlphabet, MaxPrefixLen) \cup {EtcPihole}

\* The prefix lists: none, one prefix, or any prefix followed by one of three.
SecondPrefixes == {<<"a">>, <<"/", "a">>, EtcPihole}

PrefixLists ==
    {<<>>} \cup {<<p>> : p \in PrefixPool}
           \cup {<<p, q>> : p \in PrefixPool, q \in SecondPrefixes}

SrcInputs ==
    StrOver(IncludeAlphabet, MaxPathLen)
        \cup {EtcPihole, EtcPihole2, EtcPihole \o <<"/">>, EtcPihole \o <<"/", "a">>}

NameInputs ==
    {Home \o <<"/">> \o t : t \in StrOver(NameAlphabet, MaxTailLen)}
        \cup {EtcPihole, EtcDnsmasq, HomeUData, HomeUA__B, HomeUASlashB}

IncludeCalls ==
    {[fn |-> "include", src |-> s, prefixes |-> ps] :
        s \in SrcInputs, ps \in PrefixLists}

NameCalls ==
    {[fn |-> "name", src |-> s, src2 |-> t] : s \in NameInputs, t \in NameInputs}

NoCall == [fn |-> "none"]

NoRet == [done |-> FALSE]

InitPathIdle == call = NoCall /\ ret = NoRet

InitPath ==
    /\ call \in IncludeCalls \cup NameCalls
    /\ ret = NoRet

ApplyShouldInclude ==
    /\ call.fn = "include"
    /\ ~ret.done
    /\ ret' = [done |-> TRUE, incl |-> should_include_path(call.src, call.prefixes)]
    /\ UNCHANGED call

ApplyArchiveName ==
    /\ call.fn = "name"
    /\ ~ret.done
    /\ ret' = [done |-> TRUE,
               arc  |-> safe_archive_name_from_src(call.src),
               arc2 |-> safe_archive_name_from_src(call.src2)]
    /\ UNCHANGED call

---------------------------------------------------------------------------
\* The specifications: one script at a time, the others idle

InitSpecProv == InitProv /\ InitPathIdle /\ InitPatchIdle /\ InitInspIdle

NextProv ==
    \/ (ProvDetectFail /\ UNCHANGED <<pathVars, patchVars, inspVars>>)
    \/ (ProvList /\ UNCHANGED <<pathVars, patchVars, inspVars>>)
    \/ (ProvResolve /\ UNCHANGED <<pathVars, patchVars, inspVars>>)
    \/ (ProvFastPath /\ UNCHANGED <<pathVars, patchVars, inspVars>>)
    \/ (ProvFallback /\ UNCHANGED <<pathVars, patchVars, inspVars>>)
    \/ (ProvDryRunExit /\ UNCHANGED <<pathVars, patchVars, inspVars>>)
    \/ (ProvGravityAndList /\ UNCHANGED <<pathVars, patchVars, inspVars>>)

SpecProv == InitSpecProv /\ [][NextProv]_vars

InitSpecPatch == InitPatch /\ InitPathIdle /\ InitProvIdle /\ InitInspIdle

NextPatch ==
    \/ (PatchNoBackup /\ UNCHANGED <<pathVars, provVars, inspVars>>)
    \/ (PatchSudoFail /\ UNCHANGED <<pathVars, provVars, inspVars>>)
    \/ (PatchPrepare /\ UNCHANGED <<pathVars, provVars, inspVars>>)
    \/ (EnsureBegin /\ UNCHANGED <<pathVars, provVars, inspVars>>)
    \/ (ArchiveStep /\ UNCHANGED <<pathVars, provVars, inspVars>>)
    \/ (PatchReport /\ UNCHANGED <<pathVars, provVars, inspVars>>)

SpecPatch == InitSpecPatch /\ [][NextPatch]_vars

InitSpecInsp == InitInsp /\ InitPathIdle /\ InitProvIdle /\ InitPatchIdle

NextInsp ==
    \/ (InspNoImage /\ UNCHANGED <<pathVars, provVars, patchVars>>)
    \/ (InspBegin /\ UNCHANGED <<pathVars, provVars, patchVars>>)
    \/ (InspCreate /\ UNCHANGED <<pathVars, provVars, patchVars>>)
    \/ (InspCopy /\ UNCHANGED <<pathVars, provVars, patchVars>>)
    \/ (InspReport /\ UNCHANGED <<pathVars, provVars, patchVars>>)
    \/ (InspHandler /\ UNCHANGED <<pathVars, provVars, patchVars>>)
    \/ (InspFinally /\ UNCHANGED <<pathVars, provVars, patchVars>>)

SpecInsp == InitSpecInsp /\ [][NextInsp]_vars

InitSpecPath == InitPath /\ InitProvIdle /\ InitPatchIdle /\ InitInspIdle

NextPath ==
    \/ (ApplyShouldInclude /\ UNCHANGED <<provVars, patchVars, inspVars>>)
    \/ (ApplyArchiveName /\ UNCHANGED <<provVars, patchVars, inspVars>>)

SpecPath == InitSpecPath /\ [][NextPath]_vars

---------------------------------------------------------------------------
\* Claims about the pure path functions (checked under SpecPath)

\* The allow-list of a run without --extra-prefix.
AllowListed(s) == should_include_path(s, DEFAULT_PREFIXES)

\* s is nested under p: p, then a separator, then anything.
IsNested(s, p) ==
    \E k \in 1..Len(s) :
        /\ k = Len(p) + 1
        /\ SubSeq(s, 1, k - 1) = p
        /\ s[k] = "/"

\* C5: should_include_path(S, prefixes) is true if and only if some prefix P
\* of the list has normalized S equal to normalized P, or normalized S
\* starting with normalized P followed by a path separator; the sibling
\* /etc/pihole2 is not included under the prefix /etc/pihole.
C5_IncludeIffEqualOrNested ==
    (call.fn = "include" /\ ret.done) =>
        /\ ret.incl <=>
              \E i \in 1..Len(call.prefixes) :
                  \/ PathStr(call.src) = PathStr(call.prefixes[i])
                  \/ IsNested(PathStr(call.src), PathStr(call.prefixes[i]))
        /\ (call.src = EtcPihole2 /\ call.prefixes = <<EtcPihole>>) => ~ret.incl

\* C5 witness: the inclusion test has answered "no" for the sibling path
\* /etc/pihole2 against the prefix /etc/pihole.
C5_Witness ==
    /\ call.fn = "include"
    /\ ret.done
    /\ call.src = EtcPihole2
    /\ call.prefixes = <<EtcPihole>>
    /\ ~ret.incl

\* A host path in the form docker inspect reports it: absolute, one leading
\* separator, unchanged by normalization.
NormalAbs(s) == PathStr(s) = s /\ LeadingSlashes(s) = 1

\* No segment of s begins or ends with "_" or contains "__".
CleanSegments(s) ==
    \A seg \in {KeptSegments(SplitSlash(s))[i] :
                    i \in 1..Len(KeptSegments(SplitSlash(s)))} :
        /\ Head(seg) # "_"
        /\ seg[Len(seg)] # "_"
        /\ \A k \in 1..(Len(seg) - 1) : ~(seg[k] = "_" /\ seg[k + 1] = "_")

\* C6 as stated: two distinct allow-listed host paths never yield the same
\* archive name.  (Stated here for normalized paths only, which the claim
\* covers.)
C6_NamingInjective ==
    (/\ call.fn = "name"
     /\ ret.done
     /\ call.src # call.src2
     /\ AllowListed(call.src) /\ AllowListed(call.src2)
     /\ NormalAbs(call.src) /\ NormalAbs(call.src2))
        => ret.arc # ret.arc2

\* C6 amended: the same path always yields the same name; two distinct
\* allow-listed, normalized absolute host paths whose segments neither begin
\* nor end with "_" nor contain "__" never yield the same name; /etc/pihole
\* maps to etc__pihole.tar.gz and /home/u/data to home__u__data.tar.gz.
C6_NamingInjectiveOnCleanPaths ==
    (call.fn = "name" /\ ret.done) =>
        /\ call.src = call.src2 => ret.arc = ret.arc2
        /\ (/\ call.src # call.src2
            /\ AllowListed(call.src) /\ AllowListed(call.src2)
            /\ NormalAbs(call.src) /\ NormalAbs(call.src2)
            /\ CleanSegments(call.src) /\ CleanSegments(call.src2))
               => ret.arc # ret.arc2
        /\ call.src = EtcPihole => ret.arc = EtcPiholeArc
        /\ call.src = HomeUData => ret.arc = HomeUDataArc

\* C6 witness: two distinct allow-listed paths with an underscore inside a
\* segment, /home/u/a_a and /home/u/a/a, have been named, and differently.
C6_Witness ==
    /\ call.fn = "name"
    /\ ret.done
    /\ call.src = Home \o <<"/", "a", "_", "a">>
    /\ call.src2 = Home \o <<"/", "a", "/", "a">>
    /\ AllowListed(call.src) /\ AllowListed(call.src2)
    /\ ret.arc # ret.arc2

---------------------------------------------------------------------------
\* Claims about the adlist provisioner (checked under SpecProv)

Range(seq) == {seq[i] : i \in 1..Len(seq)}

NoDuplicate(seq) == \A i, j \in 1..Len(seq) : i # j => seq[i] # seq[j]

\* The last run was a non-dry, non-list run and it completed with status 0.
AppliedAndDone ==
    /\ provPc = "ready"
    /\ provRuns > 0
    /\ provExit = 0
    /\ ~provArgs.dry_run
    /\ ~provArgs.list

\* C1: once one non-dry run has completed, whatever runs follow it (by the
\* in-container SQL path or by the copy-out/edit/copy-back path) leave
\* gravity.db as that run left it: the same adlist rows with the same ids,
\* enabled flags and comments, the same group 0 row and the same links, none
\* of them twice.
C1_RerunLeavesSameState ==
    applies >= 1 =>
        /\ Proj(db) = afterFirst[1]
        /\ NoDuplicate(db.adlist_by_group)

\* C1 witness: two non-dry runs have completed, the second by the
\* copy-out/edit/copy-back path, from a database the first run had to change.
C1_Witness ==
    /\ applies = 2
    /\ provPc = "ready"
    /\ "docker cp back" \in Range(provCalls)
    /\ Proj(db0) # Proj(db)
    /\ Proj(db) = afterFirst[1]

\* The state the provisioner is to reach: group 0 there once and enabled,
\* each configured url there once, enabled, with its label, linked to group 0.
Converged(d) ==
    /\ Cardinality({g \in d.group : g.id = DEFAULT_GROUP_ID}) = 1
    /\ \A g \in d.group : g.id = DEFAULT_GROUP_ID => g.enabled = 1
    /\ \A i \in 1..Len(ADLISTS) :
        LET rows == {r \in d.adlist : r.address = ADLISTS[i].url} IN
        /\ Cardinality(rows) = 1
        /\ \A r \in rows :
            /\ r.enabled = 1
            /\ r.comment = ADLISTS[i].comment
            /\ [adlist_id |-> r.id, group_id |-> DEFAULT_GROUP_ID]
                    \in Range(d.adlist_by_group)

\* In the statements run, the insert and the enable of group 0 come, in this
\* order, before every write to adlist_by_group.
GroupBeforeLinks(run) ==
    \A k \in 1..Len(run) :
        run[k].op = "link" =>
            \E i, j \in 1..(k - 1) :
                /\ i < j
                /\ run[i].op = "insert_group"
                /\ run[j].op = "enable_group"

\* C2: after a non-dry run that completed, whatever the three tables held
\* before, group 0 exists and is enabled, each of the 3 configured urls has
\* exactly one row, enabled, with its label and linked to group 0; the run
\* ensured group 0 before its first write to adlist_by_group; and from the
\* empty database the adlist table ends with exactly 3 rows.
C2_RunConverges ==
    AppliedAndDone =>
        /\ Converged(db)
        /\ stmts # <<>>
        /\ GroupBeforeLinks(stmts)
        /\ db0 = EmptyDb(need) => Cardinality(db.adlist) = 3

\* C2 witness: a non-dry run has completed on the empty database and has left
\* three adlist rows.
C2_Witness ==
    /\ AppliedAndDone
    /\ applies = 1
    /\ db0 = EmptyDb(need)
    /\ Cardinality(db.adlist) = 3
    /\ Converged(db)

\* The commands of the provisioner that change the container.
ProvMutating ==
    {"docker exec sqlite3", "edit_db_on_host", "docker cp back", "pihole -g"}

\* The provisioner's part of C3: a dry run runs none of the mutating
\* commands, and a dry run that ended normally has looked up the container
\* (without --container) and sqlite3 in it.
ProvDryRunMutatesNothing ==
    provArgs.dry_run =>
        /\ Range(provCalls) \cap ProvMutating = {}
        /\ stmts = <<>>
        /\ (provPc = "ready" /\ provExit = 0) =>
                /\ "sqlite3 check" \in Range(provCalls)
                /\ provArgs.container = "auto" => "docker ps" \in Range(provCalls)

---------------------------------------------------------------------------
\* Claims about the patcher (checked under SpecPatch)

\* The commands of the patcher that change the host.
PatchMutating ==
    {"sudo -v", "sudo tar", "sudo chown", "make-backup-image.sh"}

\* The run went through ensure_bind_archives and the AFTER report and ended.
PatchDone == patchPc = "exited" /\ idx >= 1

\* C3: in dry-run mode the patcher never invokes a mutating external
\* command on any execution path (no sudo, tar, chown, nor any other command
\* that changes the host), while docker inspect and the listing of the
\* archives still run.
C3_DryRunNoMutatingCommand ==
    patchArgs.dry_run =>
        /\ \A i \in 1..Len(patchCalls) : patchCalls[i].cmd \notin PatchMutating
        /\ PatchDone =>
              /\ \A c \in Range(patchArgs.containers) :
                    \E i \in 1..Len(patchCalls) :
                        /\ patchCalls[i].cmd = "docker inspect"
                        /\ patchCalls[i].who = c
              /\ existing = snapshot0.archives

\* C4: a dry run of the patcher leaves the snapshot directory as it was,
\* also when it had no bind-mounts/ subdirectory: the same directories and
\* the same files after the run as before it.
C4_DryRunLeavesFilesystem ==
    patchArgs.dry_run =>
        /\ bindDir = snapshot0.bindDir
        /\ archives = snapshot0.archives

\* s passes the inclusion test against some prefix of the list, stated
\* without should_include_path: s is the prefix or lies under it.
UnderSomePrefix(s, prefixes) ==
    \E i \in 1..Len(prefixes) : s = prefixes[i] \/ IsNested(s, prefixes[i])

\* The sources the run is to have in the snapshot: the two well-known paths
\* when they exist and are allowed, and the bind mounts of the inspected
\* containers with a source and a destination whose source exists and is
\* allowed.
CandidateSources ==
    {q \in {EtcPihole, EtcDnsmasq} :
        q \in hostPaths /\ UnderSomePrefix(q, allowed)}
    \cup
    {m.Source : m \in
        {x \in UNION {Range(inspect[c].mounts) :
                        c \in {d \in Range(patchArgs.containers) : inspect[d].ok}} :
            /\ x.Type = "bind"
            /\ x.Source # <<>>
            /\ (x.Destination # <<>> \/ x.Target # <<>>)
            /\ x.Source \in hostPaths
            /\ UnderSomePrefix(x.Source, allowed)}}

TarCalls == SelectSeq(patchCalls, LAMBDA c : c.cmd = "sudo tar")

\* C7: in a non-dry run the archive names the patcher attempts to create are
\* exactly the names of the candidates that are not in bind-mounts/ already,
\* and no path outside the allow-list is archived; with {a.tar.gz} present
\* and candidates a.tar.gz, b.tar.gz the missing set is {b.tar.gz}; with one
\* bind mount /etc/pihole and nothing present exactly etc__pihole.tar.gz is
\* created.
C7_AttemptsAreCandidatesMinusExisting ==
    /\ (PatchDone /\ ~patchArgs.dry_run) =>
          /\ {c.arc : c \in Range(TarCalls)}
                = {safe_archive_name_from_src(q) : q \in CandidateSources}
                        \ snapshot0.archives
          /\ \A c \in Range(TarCalls) : UnderSomePrefix(c.src, allowed)
          /\ ( /\ inspect["pihole"].mounts = <<Mount("bind", EtcPihole, EtcPihole)>>
               /\ ~inspect["caddy"].ok
               /\ EtcDnsmasq \notin hostPaths
               /\ snapshot0.archives = {}
               /\ failures = 0 )
                => /\ archives = {EtcPiholeArc}
                   /\ created = <<EtcPiholeArc>>
                   /\ afterReport = {[name |-> EtcPiholeArc, new |-> TRUE]}
    /\ {m.arc : m \in Range(
            MissingOf(<<[cname |-> "pihole", src |-> PathA, dst |-> PathA],
                        [cname |-> "pihole", src |-> PathB, dst |-> PathB]>>,
                      {ATarGz}))} = {BTarGz}

\* C7 witness: a non-dry run has ended where etc__pihole.tar.gz was there
\* already, a mount of a path outside the allow-list was reported, and the
\* one archive attempted was that of the bind mount /home/u/data.
C7_Witness ==
    /\ PatchDone
    /\ ~patchArgs.dry_run
    /\ snapshot0.archives = {EtcPiholeArc, NotesArc}
    /\ inspect["pihole"].mounts = <<Mount("bind", HomeUData, HomeUData)>>
    /\ inspect["caddy"].mounts = <<Mount("bind", SrvX, SrvX)>>
    /\ patchArgs.extra_prefix = <<>>
    /\ {c.arc : c \in Range(TarCalls)} = {HomeUDataArc}

\* The archives of the steps whose tar and chown both succeeded, in order.
ArcsOfChowned ==
    LET ok == SelectSeq(patchCalls, LAMBDA c : c.cmd = "sudo chown" /\ c.ok)
    IN  [i \in 1..Len(ok) |-> ok[i].arc]

\* C8: a failing archive step (tar, or the chown after it) never ends the
\* run: once ensure_bind_archives has begun the run is in its loop or has
\* ended with status 0 after the AFTER report; a run that has ended has
\* attempted tar for every missing path in order, and the created list holds
\* the archives of exactly the steps that did not fail.
C8_ArchiveFailureIsSkipped ==
    (idx >= 1 /\ ~patchArgs.dry_run) =>
        /\ patchPc \in {"loop", "exited"}
        /\ patchPc = "loop" => patchExit = -1
        /\ patchPc = "exited" =>
              /\ patchExit = 0
              /\ idx = Len(missing) + 1
              /\ [i \in 1..Len(TarCalls) |-> TarCalls[i].src]
                    = [i \in 1..Len(missing) |-> missing[i].src]
              /\ created = ArcsOfChowned
              /\ Len(created) = Len(missing) - failures
              /\ \A n \in archives : \E r \in afterReport : r.name = n

\* C8 witness: a run has ended normally in which tar failed for one path
\* and a later path was archived.
C8_Witness ==
    /\ PatchDone
    /\ patchExit = 0
    /\ failures >= 1
    /\ \E i, j \in 1..Len(patchCalls) :
          /\ i < j
          /\ patchCalls[i].cmd = "sudo tar" /\ ~patchCalls[i].ok
          /\ patchCalls[j].cmd = "sudo chown" /\ patchCalls[j].ok
          /\ patchCalls[j].arc \in Range(created)
          /\ patchCalls[i].arc \notin Range(created)

---------------------------------------------------------------------------
\* Claims about the inspector (checked under SpecInsp)

\* C9: once the temporary directory has been made, every way out of the
\* run (normal completion, exit 3 for a missing /bundle, a failed docker
\* create, a failed docker cp, any other exception) removes the temporary
\* directory, and the throwaway container if one was made: no run ends with
\* either still there, and a run that has not made the directory yet has
\* neither.
C9_CleanupOnEveryExit ==
    /\ inspPc = "exited" => ~tmpDir /\ ~made
    /\ inspPc = "start" => ~tmpDir /\ ~made
    /\ made => tmpDir /\ cid # "none"

\* C9 witness: a run has ended with status 1 after docker cp failed, an
\* exception left the handler, and the container that had been made and
\* the temporary directory are gone.
C9_Witness ==
    /\ inspPc = "exited"
    /\ inspExit = 1
    /\ cid # "none"
    /\ raised.cmd # <<>>
    /\ raised.cmd[2] = "cp"
    /\ ~made
    /\ ~tmpDir

\* C10: the inspector fails with guidance and a non-zero status when no
\* image is resolved or extraction fails: with no image, the hints and status
\* 2; when docker create or docker cp fails, the error message together with
\* the list of the local homelab-backup images, or the hints when there are
\* none, on stderr, and status 1.
C10_FailsWithGuidance ==
    inspPc = "exited" =>
        /\ image = "none" =>
              /\ inspExit = 2
              /\ "Hints:" \in Range(inspErr)
        /\ raised.cmd # <<>> =>
              /\ inspExit = 1
              /\ \E i \in 1..Len(inspErr) :
                    inspErr[i] \in {"ERROR: Could not create container from image",
                                    "ERROR: Command failed"}
              /\ IF images # <<>>
                 THEN "Available homelab-backup images:" \in Range(inspErr)
                 ELSE "Hints:" \in Range(inspErr)

\* The run got as far as the report: the container was made, /bundle was
\* copied out and is there.
ReportReached ==
    /\ inspPc = "exited"
    /\ cid # "none"
    /\ raised.cmd = <<>>
    /\ bundleEnv.bundle

\* C11: a missing manifests directory, a missing containers.json or a
\* containers.json whose content cannot be used as the list of containers
\* is never fatal: the structural report is printed (manifests marked absent
\* when the directory is missing), the per-container section is skipped, a
\* warning or note is written, and the run ends with status 0.
C11_ManifestProblemsNotFatal ==
    (ReportReached /\ bundleEnv.containers_json # "list") =>
        /\ inspExit = 0
        /\ "== Top-level presence ==" \in Range(inspOut)
        /\ ~bundleEnv.manifests => "manifests/: no" \in Range(inspOut)
        /\ "== Per-container capture check ==" \notin Range(inspOut)
        /\ "== Done ==" \in Range(inspOut)
        /\ \E i \in 1..Len(inspErr) :
              inspErr[i] \in
                {"WARNING: could not parse containers.json",
                 "NOTE: containers.json missing; deep cross-check skipped."}

---------------------------------------------------------------------------
\* Further claims about the provisioner (checked under SpecProv)

\* A run without sqlite3 in the container, not dry, is about to copy the
\* database out and edit it.
AtFallback == provPc = "resolved" /\ ~has_sqlite3 /\ ~provArgs.dry_run

\* C12: on the fallback path, when one of the tables adlist,
\* adlist_by_group, group is missing from the copied database the run ends
\* with a fatal error and non-zero status before any INSERT or UPDATE is
\* executed, the database is not copied back and gravity is not rebuilt;
\* and the container's database changes only when every statement ran and
\* was committed, the copy back coming after the edit.
C12_FallbackSchemaCheck ==
    [][ AtFallback =>
          /\ (need \ db.tables # {}) =>
                /\ provPc' = "ready"
                /\ provExit' = 1
                /\ stmts' = <<>>
                /\ db' = db
                /\ "docker cp back" \notin Range(provCalls')
                /\ "pihole -g" \notin Range(provCalls')
          /\ ("docker cp back" \in Range(provCalls') \/ db' # db) =>
                /\ need \subseteq db.tables
                /\ stmts' = ProvisionScript
                /\ provCalls'[Len(provCalls')] = "docker cp back"
                /\ provCalls'[Len(provCalls') - 1] = "edit_db_on_host"
                /\ provPc' = "applied"
          /\ provPc' = "ready" =>
                /\ db' = db
                /\ provExit' = 1
                /\ "docker cp back" \notin Range(provCalls')
      ]_vars

\* C12 witness: a fallback run on a database without the table
\* adlist_by_group has ended with status 1 after the sanity check, nothing
\* executed, nothing copied back, and the database as it was.
C12_Witness ==
    /\ provPc = "ready"
    /\ provExit = 1
    /\ ~has_sqlite3
    /\ ~provArgs.dry_run
    /\ db.tables = need \ {"adlist_by_group"}
    /\ provCalls[Len(provCalls)] = "edit_db_on_host"
    /\ stmts = <<>>
    /\ db = db0

---------------------------------------------------------------------------
\* Further claims about the patcher (checked under SpecPatch)

\* C13: in the AFTER report of a non-dry run an archive name is flagged
\* "(new)" if and only if it is in bind-mounts/ after the run and was not
\* there before it: every file the run added is flagged, also when tar
\* succeeded and the chown after it failed, and no file that was there
\* before is flagged.
C13_NewFlagIffAdded ==
    (PatchDone /\ patchExit = 0 /\ ~patchArgs.dry_run) =>
        /\ {r.name : r \in afterReport} = archives
        /\ \A r \in afterReport :
              r.new <=> (r.name \in archives /\ r.name \notin snapshot0.archives)

\* C14: candidates are de-duplicated by source path, so within one run the
\* archive command is invoked at most once per host path and at most once
\* per archive file name, and no archive written earlier in the run is
\* overwritten by a later candidate.
C14_ArchivedOnce ==
    \A i, j \in 1..Len(TarCalls) :
        i # j =>
            /\ TarCalls[i].src # TarCalls[j].src
            /\ TarCalls[i].arc # TarCalls[j].arc

===========================================================================
